---- MODULE Spec2Model ----
(***************************************************************************)
(* EncryptedPolls (src/unnamed/part_000): multi-option polls whose ballots *)
(* are FHE ciphertexts, revealed by a two-phase public decryption          *)
(* (requestPollReveal, then resolvePollCallback).                          *)
(*                                                                         *)
(* One action per external function of the contract.  A transaction is    *)
(* atomic: it either applies all its writes or reverts and applies none.  *)
(* block.timestamp is the variable now; several transactions may run at   *)
(* the same timestamp (they share a block).                                *)
(***************************************************************************)
EXTENDS Integers, Sequences, FiniteSets, TLC

\* ---------------------------------------------------------------- bounds
MaxTime == 2       \* block.timestamp ranges over 0..MaxTime
MaxOptions == 2    \* optionLabels.length ranges over 1..MaxOptions
MaxPolls == 2      \* polls created where several polls are modelled
MaxDecVotes == 3   \* voteCount and bundle length where the decode loop runs alone

\* ------------------------------------------------------------- constants
ZeroAddress == "0x0"
Users == {"alice", "bob"}
MaxVotes == Cardinality(Users)
\* Poll ids the callers use: 1 is the id the first createPoll assigns, 0 is
\* an id no createPoll ever assigns (nextPollId starts at 1).
PollIds == {0, 1}
\* Poll ids where two polls go through the whole reveal: 1 and 2, and 0.
TwoPollIds == {0, 1, 2}
\* Poll ids where several polls are created: 1..MaxPolls, and 0 as above.
ManyPollIds == 0..MaxPolls
VoteIds == 1..MaxVotes
Times == 0..MaxTime
OptionCounts == 1..MaxOptions
\* An euint8 plaintext; MaxOptions itself is never a valid option index.
Choices == 0..MaxOptions
\* and(word, 0xff) keeps word % Byte.
Byte == 256
\* 32-byte calldata words a caller puts in a bundle.
Words == Choices
\* Words with bits above the low byte set: Byte + c has low byte c.
PaddedWords == Choices \cup {Byte, Byte + 1}

\* Question texts: empty, blank, and a proper one.  createPoll stores whatever
\* text it is given (line 85); the contract-only specifications use Question.
Questions == {"", " ", "q"}
Question == "q"
NoPoll == [creator |-> ZeroAddress, question |-> "", optionCount |-> 0,
           startTime |-> 0, endTime |-> 0, finalized |-> FALSE,
           voteCount |-> 0, revealRequested |-> FALSE]
NoVote == [voter |-> ZeroAddress, encryptedChoice |-> 0]
NoProof == [signer |-> "none", handles |-> <<>>, clear |-> <<>>]
NoTally == [counts |-> <<>>, proof |-> NoProof]
\* FHEVMService.createPoll before it is called: no id predicted, no
\* transaction sent, nothing returned.
NoCreatePollCall == [pc |-> "idle", startTime |-> 0, endTime |-> 0,
                     pollId |-> 0, created |-> 0, returned |-> 0]
\* FHEVMService.decryptResults before it is called.  poll, voteId, handles
\* and result are its local variables, counts is what it returns and err the
\* error it throws; rejected records that an earlier run of the same user
\* was rejected with AlreadyRequested or AlreadyFinalized.
NoDecryptResultsCall ==
    [pc |-> "idle", poll |-> NoPoll, voteId |-> 1, handles |-> <<>>,
     result |-> NoProof, counts |-> <<>>, err |-> "ok", runs |-> 0,
     rejected |-> FALSE]
\* FHEVMService.getAllPolls before it is called.  pollId,
\* consecutiveEmptyPolls and polls (the ids of the polls pushed) are its
\* local variables and returned is its result; existing is the set of polls
\* that existed when the call started.
NoGetAllPollsCall ==
    [pc |-> "idle", pollId |-> 1, consecutiveEmptyPolls |-> 0, polls |-> <<>>,
     returned |-> <<>>, existing |-> {}]
\* The frontend with no call in progress.
NoService == [createPoll |-> NoCreatePollCall,
              decryptResults |-> [u \in Users |-> NoDecryptResultsCall],
              getAllPolls |-> NoGetAllPollsCall]
\* The decode loop before it has run on anything.
NoDecode == [abiEncodedChoices |-> <<>>, tail |-> <<>>, voteCount |-> 0,
             optionCount |-> 0, done |-> FALSE,
             result |-> [ok |-> FALSE, counts |-> <<>>]]

VARIABLES
    now,         \* block.timestamp
    nextPollId,  \* uint256 private nextPollId
    polls,       \* mapping(uint256 => Poll)
    pollVotes,   \* mapping(uint256 => mapping(uint256 => Vote))
    hasVoted,    \* mapping(uint256 => mapping(address => bool))
    tallies,     \* mapping(uint256 => Tally)
    plain,       \* coprocessor: plaintext behind each handle 1..Len(plain)
    publicDec,   \* coprocessor: handles marked publicly decryptable
    revealLog,   \* PollRevealRequested events: pollId -> emitted handles
    voteLog,     \* VoteCast events: the set of (pollId, voteId, voter) emitted
    last,        \* the transaction this step executed: function, pollId
                 \* argument, msg.sender, revert reason ("ok" if none); for
                 \* resolvePollCallback also what the proof check and the
                 \* bounds check say about its arguments
    tallyDecoder, \* the decode loop of resolvePollCallback run on its own:
                 \* its inputs and, once done, its result
    service      \* the frontend's FHEVMService calls in progress: the
                 \* position and the local variables of each call

vars == <<now, nextPollId, polls, pollVotes, hasVoted, tallies, plain,
          publicDec, revealLog, voteLog, last, tallyDecoder,
          service>>
contractVars == <<nextPollId, polls, pollVotes, hasVoted, tallies, plain,
                  publicDec, revealLog, voteLog>>

\* -------------------------------------------------------------- helpers
RECURSIVE SumSeq(_)
SumSeq(s) == IF s = <<>> THEN 0 ELSE Head(s) + SumSeq(Tail(s))

Zeros(n) == [i \in 1..n |-> 0]

\* bytes32[] handles of votes 1..voteCount, in ascending voteId order.
HandlesOf(pollId) ==
    [voteId \in 1..polls[pollId].voteCount |->
        pollVotes[pollId][voteId].encryptedChoice]

\* abi.encode of the plaintexts behind a handle list: one word per handle.
ClearOf(handles) == [i \in 1..Len(handles) |-> plain[handles[i]]]

AllPublic(handles) == \A i \in 1..Len(handles) : handles[i] \in publicDec

\* ------------------------------------------------------------ createPoll
\* Mutant: the schedule is not compared with block.timestamp.
createPollRevert_NoNowCheck(optionCount, startTime, endTime) ==
    IF optionCount < 2 THEN "InvalidOptionCount"
    ELSE IF endTime <= startTime THEN "InvalidSchedule"
    ELSE "ok"

createPollRevert(optionCount, startTime, endTime) ==
    IF optionCount < 2 THEN "InvalidOptionCount"
    ELSE IF endTime <= startTime \/ endTime <= now THEN "InvalidSchedule"
    ELSE "ok"

Receipt(op, pollId, sender, err, verified, inRange) ==
    [op |-> op, pollId |-> pollId, sender |-> sender, err |-> err,
     verified |-> verified, inRange |-> inRange]

\* Mutant: the id is taken after the increment (++nextPollId).
createPoll_PreIncrement(sender, question, optionCount, startTime, endTime) ==
    LET err == createPollRevert(optionCount, startTime, endTime) IN
    /\ IF err = "ok"
       THEN /\ nextPollId' = nextPollId + 1
            /\ polls' = [polls EXCEPT ![nextPollId + 1] =
                            [NoPoll EXCEPT !.creator = sender,
                                           !.question = question,
                                           !.optionCount = optionCount,
                                           !.startTime = startTime,
                                           !.endTime = endTime]]
            /\ last' = Receipt("createPoll", nextPollId + 1, sender, "ok", FALSE, FALSE)
       ELSE /\ UNCHANGED <<nextPollId, polls>>
            /\ last' = Receipt("createPoll", 0, sender, err, FALSE, FALSE)
    /\ UNCHANGED <<voteLog, tallyDecoder, now, pollVotes, hasVoted, tallies, plain, publicDec, revealLog>>

createPoll(sender, question, optionCount, startTime, endTime) ==
    LET err == createPollRevert(optionCount, startTime, endTime) IN
    /\ IF err = "ok"
       THEN /\ nextPollId' = nextPollId + 1
            /\ polls' = [polls EXCEPT ![nextPollId] =
                            [NoPoll EXCEPT !.creator = sender,
                                           !.question = question,
                                           !.optionCount = optionCount,
                                           !.startTime = startTime,
                                           !.endTime = endTime]]
            /\ last' = Receipt("createPoll", nextPollId, sender, "ok", FALSE, FALSE)
       ELSE /\ UNCHANGED <<nextPollId, polls>>
            /\ last' = Receipt("createPoll", 0, sender, err, FALSE, FALSE)
    /\ UNCHANGED <<voteLog, tallyDecoder, now, pollVotes, hasVoted, tallies, plain, publicDec, revealLog>>

\* createPoll while the one poll id of PollIds is unused.
CreatePoll(sender, question, optionCount, startTime, endTime) ==
    /\ nextPollId \in PollIds
    /\ createPoll(sender, question, optionCount, startTime, endTime)

\* createPoll while one of the two poll ids of TwoPollIds is unused.
CreatePollTwo(sender, question, optionCount, startTime, endTime) ==
    /\ nextPollId \in TwoPollIds
    /\ createPoll(sender, question, optionCount, startTime, endTime)

\* createPoll while fewer than MaxPolls polls exist.
CreatePollMany(sender, question, optionCount, startTime, endTime) ==
    /\ nextPollId \in 1..MaxPolls
    /\ createPoll(sender, question, optionCount, startTime, endTime)

\* -------------------------------------------------------------- castVote
\* Mutant: the creator == address(0) guard is missing.
castVoteRevert_NoExistsGuard(pollId, sender, inputOk) ==
    IF now < polls[pollId].startTime \/ now > polls[pollId].endTime
         THEN "PollNotActive"
    ELSE IF hasVoted[pollId][sender] THEN "AlreadyVoted"
    ELSE IF ~inputOk THEN "InvalidInputProof"
    ELSE "ok"

\* Mutant: a poll accepts one vote only.
castVoteRevert_OneVoter(pollId, sender, inputOk) ==
    IF polls[pollId].creator = ZeroAddress THEN "InvalidPoll"
    ELSE IF now < polls[pollId].startTime \/ now > polls[pollId].endTime
         THEN "PollNotActive"
    ELSE IF hasVoted[pollId][sender] \/ polls[pollId].voteCount > 0
         THEN "AlreadyVoted"
    ELSE IF ~inputOk THEN "InvalidInputProof"
    ELSE "ok"

\* Mutant: the hasVoted guard is missing.
castVoteRevert_NoVotedGuard(pollId, sender, inputOk) ==
    IF polls[pollId].creator = ZeroAddress THEN "InvalidPoll"
    ELSE IF now < polls[pollId].startTime \/ now > polls[pollId].endTime
         THEN "PollNotActive"
    ELSE IF ~inputOk THEN "InvalidInputProof"
    ELSE "ok"

\* Mutant: the window excludes endTime (>= instead of >).
castVoteRevert_ExclusiveEnd(pollId, sender, inputOk) ==
    IF polls[pollId].creator = ZeroAddress THEN "InvalidPoll"
    ELSE IF now < polls[pollId].startTime \/ now >= polls[pollId].endTime
         THEN "PollNotActive"
    ELSE IF hasVoted[pollId][sender] THEN "AlreadyVoted"
    ELSE IF ~inputOk THEN "InvalidInputProof"
    ELSE "ok"

\* The revert reason of castVote; inputOk is whether FHE.fromExternal accepts
\* the external ciphertext and its input proof.
castVoteRevert(pollId, sender, inputOk) ==
    IF polls[pollId].creator = ZeroAddress THEN "InvalidPoll"
    ELSE IF now < polls[pollId].startTime \/ now > polls[pollId].endTime
         THEN "PollNotActive"
    ELSE IF hasVoted[pollId][sender] THEN "AlreadyVoted"
    ELSE IF ~inputOk THEN "InvalidInputProof"
    ELSE "ok"

\* Mutant: the writes made before FHE.fromExternal survive its revert.
CastVote_NoRollback(pollId, sender, choice, inputOk) ==
    LET err == castVoteRevert(pollId, sender, inputOk)
        voteId == polls[pollId].voteCount + 1
        handle == Len(plain) + 1
    IN
    /\ err \in {"ok", "InvalidInputProof"} => voteId \in VoteIds
    /\ IF err = "ok"
       THEN /\ polls' = [polls EXCEPT ![pollId].voteCount = voteId]
            /\ hasVoted' = [hasVoted EXCEPT ![pollId][sender] = TRUE]
            /\ plain' = Append(plain, choice)
            /\ pollVotes' = [pollVotes EXCEPT ![pollId][voteId] =
                                [voter |-> sender, encryptedChoice |-> handle]]
            /\ voteLog' = voteLog \cup
                   {[pollId |-> pollId, voteId |-> voteId, voter |-> sender]}
       ELSE IF err = "InvalidInputProof"
       THEN /\ polls' = [polls EXCEPT ![pollId].voteCount = voteId]
            /\ hasVoted' = [hasVoted EXCEPT ![pollId][sender] = TRUE]
            /\ UNCHANGED <<plain, pollVotes, voteLog>>
       ELSE UNCHANGED <<polls, hasVoted, plain, pollVotes, voteLog>>
    /\ last' = Receipt("castVote", pollId, sender, err, FALSE, FALSE)
    /\ UNCHANGED <<tallyDecoder, now, nextPollId, tallies, publicDec, revealLog>>

\* Mutant: every vote is stored in slot 1.
CastVote_Overwrite(pollId, sender, choice, inputOk) ==
    LET err == castVoteRevert(pollId, sender, inputOk)
        voteId == polls[pollId].voteCount + 1
        handle == Len(plain) + 1
    IN
    /\ err = "ok" => voteId \in VoteIds
    /\ IF err = "ok"
       THEN /\ polls' = [polls EXCEPT ![pollId].voteCount = voteId]
            /\ hasVoted' = [hasVoted EXCEPT ![pollId][sender] = TRUE]
            /\ plain' = Append(plain, choice)
            /\ pollVotes' = [pollVotes EXCEPT ![pollId][1] =
                                [voter |-> sender, encryptedChoice |-> handle]]
            /\ voteLog' = voteLog \cup
                   {[pollId |-> pollId, voteId |-> voteId, voter |-> sender]}
       ELSE UNCHANGED <<polls, hasVoted, plain, pollVotes, voteLog>>
    /\ last' = Receipt("castVote", pollId, sender, err, FALSE, FALSE)
    /\ UNCHANGED <<tallyDecoder, now, nextPollId, tallies, publicDec, revealLog>>

CastVote(pollId, sender, choice, inputOk) ==
    LET err == castVoteRevert(pollId, sender, inputOk)
        voteId == polls[pollId].voteCount + 1
        handle == Len(plain) + 1
    IN
    /\ err = "ok" => voteId \in VoteIds
    /\ IF err = "ok"
       THEN /\ polls' = [polls EXCEPT ![pollId].voteCount = voteId]
            /\ hasVoted' = [hasVoted EXCEPT ![pollId][sender] = TRUE]
            /\ plain' = Append(plain, choice)
            /\ pollVotes' = [pollVotes EXCEPT ![pollId][voteId] =
                                [voter |-> sender, encryptedChoice |-> handle]]
            /\ voteLog' = voteLog \cup
                   {[pollId |-> pollId, voteId |-> voteId, voter |-> sender]}
       ELSE UNCHANGED <<polls, hasVoted, plain, pollVotes, voteLog>>
    /\ last' = Receipt("castVote", pollId, sender, err, FALSE, FALSE)
    /\ UNCHANGED <<tallyDecoder, now, nextPollId, tallies, publicDec, revealLog>>

\* ----------------------------------------------------- requestPollReveal
\* Mutant: the voteCount == 0 guard is missing.
requestPollRevealRevert_NoVoteCountGuard(pollId) ==
    IF polls[pollId].creator = ZeroAddress THEN "InvalidPoll"
    ELSE IF now < polls[pollId].endTime THEN "PollNotClosed"
    ELSE IF polls[pollId].finalized THEN "AlreadyFinalized"
    ELSE IF polls[pollId].revealRequested THEN "AlreadyRequested"
    ELSE "ok"

\* Mutant: the revealRequested guard is missing.
requestPollRevealRevert_NoRequestedGuard(pollId) ==
    IF polls[pollId].creator = ZeroAddress THEN "InvalidPoll"
    ELSE IF now < polls[pollId].endTime THEN "PollNotClosed"
    ELSE IF polls[pollId].finalized THEN "AlreadyFinalized"
    ELSE IF polls[pollId].voteCount = 0 THEN "IncompleteVotes"
    ELSE "ok"

\* Mutant: revealRequested is tested before finalized.
requestPollRevealRevert_RequestedFirst(pollId) ==
    IF polls[pollId].creator = ZeroAddress THEN "InvalidPoll"
    ELSE IF now < polls[pollId].endTime THEN "PollNotClosed"
    ELSE IF polls[pollId].revealRequested THEN "AlreadyRequested"
    ELSE IF polls[pollId].finalized THEN "AlreadyFinalized"
    ELSE IF polls[pollId].voteCount = 0 THEN "IncompleteVotes"
    ELSE "ok"

\* Mutant: the endTime guard is missing.
requestPollRevealRevert_NoClosedGuard(pollId) ==
    IF polls[pollId].creator = ZeroAddress THEN "InvalidPoll"
    ELSE IF polls[pollId].finalized THEN "AlreadyFinalized"
    ELSE IF polls[pollId].revealRequested THEN "AlreadyRequested"
    ELSE IF polls[pollId].voteCount = 0 THEN "IncompleteVotes"
    ELSE "ok"

requestPollRevealRevert(pollId) ==
    IF polls[pollId].creator = ZeroAddress THEN "InvalidPoll"
    ELSE IF now < polls[pollId].endTime THEN "PollNotClosed"
    ELSE IF polls[pollId].finalized THEN "AlreadyFinalized"
    ELSE IF polls[pollId].revealRequested THEN "AlreadyRequested"
    ELSE IF polls[pollId].voteCount = 0 THEN "IncompleteVotes"
    ELSE "ok"

\* Mutant: the marking loop stops one vote early (voteId < voteCount).
RequestPollReveal_OffByOne(pollId, sender) ==
    LET err == requestPollRevealRevert(pollId)
        n == polls[pollId].voteCount
        handles == [i \in 1..n |-> IF i < n THEN HandlesOf(pollId)[i] ELSE 0]
    IN
    /\ IF err = "ok"
       THEN /\ polls' = [polls EXCEPT ![pollId].revealRequested = TRUE]
            /\ publicDec' = publicDec \cup
                   {HandlesOf(pollId)[i] : i \in 1..(n - 1)}
            /\ revealLog' = [revealLog EXCEPT ![pollId] = handles]
       ELSE UNCHANGED <<polls, publicDec, revealLog>>
    /\ last' = Receipt("requestPollReveal", pollId, sender, err, FALSE, FALSE)
    /\ UNCHANGED <<voteLog, tallyDecoder, now, nextPollId, pollVotes, hasVoted, tallies, plain>>

\* Mutant: only the poll's creator may request the reveal.
RequestPollReveal_OnlyCreator(pollId, sender) ==
    LET err == IF polls[pollId].creator # ZeroAddress
                  /\ sender # polls[pollId].creator
               THEN "NotAuthorized"
               ELSE requestPollRevealRevert(pollId)
    IN
    /\ IF err = "ok"
       THEN /\ polls' = [polls EXCEPT ![pollId].revealRequested = TRUE]
            /\ publicDec' = publicDec \cup
                   {HandlesOf(pollId)[i] : i \in 1..polls[pollId].voteCount}
            /\ revealLog' = [revealLog EXCEPT ![pollId] = HandlesOf(pollId)]
       ELSE UNCHANGED <<polls, publicDec, revealLog>>
    /\ last' = Receipt("requestPollReveal", pollId, sender, err, FALSE, FALSE)
    /\ UNCHANGED <<voteLog, tallyDecoder, now, nextPollId, pollVotes, hasVoted, tallies, plain>>

RequestPollReveal(pollId, sender) ==
    LET err == requestPollRevealRevert(pollId) IN
    /\ IF err = "ok"
       THEN /\ polls' = [polls EXCEPT ![pollId].revealRequested = TRUE]
            /\ publicDec' = publicDec \cup
                   {HandlesOf(pollId)[i] : i \in 1..polls[pollId].voteCount}
            /\ revealLog' = [revealLog EXCEPT ![pollId] = HandlesOf(pollId)]
       ELSE UNCHANGED <<polls, publicDec, revealLog>>
    /\ last' = Receipt("requestPollReveal", pollId, sender, err, FALSE, FALSE)
    /\ UNCHANGED <<voteLog, tallyDecoder, now, nextPollId, pollVotes, hasVoted, tallies, plain>>

\* --------------------------------------------------- resolvePollCallback
\* Off-chain decryption service: it signs (handles, cleartexts) only for
\* handle lists that are all publicly decryptable, with their true plaintexts.
SignedByKms(handles) ==
    [signer |-> "kms", handles |-> handles, clear |-> ClearOf(handles)]

ForgedProof == [signer |-> "forged", handles |-> <<>>, clear |-> <<>>]

DecryptableLists ==
    {L \in {HandlesOf(p) : p \in DOMAIN polls}
              \cup {revealLog[p] : p \in DOMAIN polls} :
        AllPublic(L)}

\* Every decryptionProof a caller can hold in the current state.
Proofs == {ForgedProof} \cup {SignedByKms(L) : L \in DecryptableLists}

Bundles == UNION {[1..n -> Words] : n \in 0..MaxVotes}
\* Calldata words that follow the bundle (zero past the end of calldata).
Tails == {<<>>} \cup {<<w>> : w \in Words}

\* FHE.checkSignatures: TRUE iff the proof is the service's signature over
\* exactly this handle list and exactly these cleartext bytes.
checkSignatures(handles, abiEncodedChoices, decryptionProof) ==
    /\ decryptionProof.signer = "kms"
    /\ decryptionProof.handles = handles
    /\ decryptionProof.clear = abiEncodedChoices

\* Mutant: the bundle is read past a length word, slot i at word i + 1.
calldataload_LengthHeader(abiEncodedChoices, tail, i) ==
    IF i + 1 < Len(abiEncodedChoices) THEN abiEncodedChoices[i + 2]
    ELSE IF i + 1 - Len(abiEncodedChoices) < Len(tail)
         THEN tail[i + 1 - Len(abiEncodedChoices) + 1]
    ELSE 0

\* calldataload(abiEncodedChoices.offset + 32 * i)
calldataload(abiEncodedChoices, tail, i) ==
    IF i < Len(abiEncodedChoices) THEN abiEncodedChoices[i + 1]
    ELSE IF i - Len(abiEncodedChoices) < Len(tail)
         THEN tail[i - Len(abiEncodedChoices) + 1]
    ELSE 0

\* Mutant: the word is used whole, without and(..., 0xff).
RECURSIVE decodeFrom_NoMask(_, _, _, _, _, _)
decodeFrom_NoMask(i, voteCount, optionCount, abiEncodedChoices, tail, counts) ==
    IF i >= voteCount THEN [ok |-> TRUE, counts |-> counts]
    ELSE LET choice == calldataload(abiEncodedChoices, tail, i) IN
         IF choice < optionCount
         THEN decodeFrom_NoMask(i + 1, voteCount, optionCount, abiEncodedChoices,
                                tail, [counts EXCEPT ![choice + 1] = @ + 1])
         ELSE [ok |-> FALSE, counts |-> <<>>]

\* The decode loop, from slot i on; ok = FALSE is the failed require.
RECURSIVE decodeFrom(_, _, _, _, _, _)
decodeFrom(i, voteCount, optionCount, abiEncodedChoices, tail, counts) ==
    IF i >= voteCount THEN [ok |-> TRUE, counts |-> counts]
    ELSE LET choice == calldataload(abiEncodedChoices, tail, i) % 256 IN
         IF choice < optionCount
         THEN decodeFrom(i + 1, voteCount, optionCount, abiEncodedChoices, tail,
                         [counts EXCEPT ![choice + 1] = @ + 1])
         ELSE [ok |-> FALSE, counts |-> <<>>]

decode(abiEncodedChoices, tail, voteCount, optionCount) ==
    decodeFrom(0, voteCount, optionCount, abiEncodedChoices, tail,
               Zeros(optionCount))

\* Mutant: FHE.checkSignatures is not called.
resolvePollCallbackRevert_NoProofCheck(pollId, abiEncodedChoices, decryptionProof, tail) ==
    IF polls[pollId].creator = ZeroAddress THEN "InvalidPoll"
    ELSE IF ~polls[pollId].revealRequested THEN "NotRequested"
    ELSE IF polls[pollId].finalized THEN "AlreadyFinalized"
    ELSE IF ~decode(abiEncodedChoices, tail, polls[pollId].voteCount,
                    polls[pollId].optionCount).ok
         THEN "ChoiceOutOfBounds"
    ELSE "ok"

\* Mutant: the decode loop runs before FHE.checkSignatures.
resolvePollCallbackRevert_DecodeFirst(pollId, abiEncodedChoices, decryptionProof, tail) ==
    IF polls[pollId].creator = ZeroAddress THEN "InvalidPoll"
    ELSE IF ~polls[pollId].revealRequested THEN "NotRequested"
    ELSE IF polls[pollId].finalized THEN "AlreadyFinalized"
    ELSE IF ~decode(abiEncodedChoices, tail, polls[pollId].voteCount,
                    polls[pollId].optionCount).ok
         THEN "ChoiceOutOfBounds"
    ELSE IF ~checkSignatures(HandlesOf(pollId), abiEncodedChoices, decryptionProof)
         THEN "ProofVerificationFailed"
    ELSE "ok"

\* Mutant: the revealRequested guard is missing.
resolvePollCallbackRevert_NoRequestedGuard(pollId, abiEncodedChoices, decryptionProof, tail) ==
    IF polls[pollId].creator = ZeroAddress THEN "InvalidPoll"
    ELSE IF polls[pollId].finalized THEN "AlreadyFinalized"
    ELSE IF ~checkSignatures(HandlesOf(pollId), abiEncodedChoices, decryptionProof)
         THEN "ProofVerificationFailed"
    ELSE IF ~decode(abiEncodedChoices, tail, polls[pollId].voteCount,
                    polls[pollId].optionCount).ok
         THEN "ChoiceOutOfBounds"
    ELSE "ok"

\* Mutant: the require on choice < optionCount is missing.
resolvePollCallbackRevert_NoBoundsCheck(pollId, abiEncodedChoices, decryptionProof, tail) ==
    IF polls[pollId].creator = ZeroAddress THEN "InvalidPoll"
    ELSE IF ~polls[pollId].revealRequested THEN "NotRequested"
    ELSE IF polls[pollId].finalized THEN "AlreadyFinalized"
    ELSE IF ~checkSignatures(HandlesOf(pollId), abiEncodedChoices, decryptionProof)
         THEN "ProofVerificationFailed"
    ELSE "ok"

\* Mutant: the callback is refused once block.timestamp has passed endTime.
resolvePollCallbackRevert_Deadline(pollId, abiEncodedChoices, decryptionProof, tail) ==
    IF polls[pollId].creator = ZeroAddress THEN "InvalidPoll"
    ELSE IF ~polls[pollId].revealRequested THEN "NotRequested"
    ELSE IF polls[pollId].finalized THEN "AlreadyFinalized"
    ELSE IF now > polls[pollId].endTime THEN "RevealExpired"
    ELSE IF ~checkSignatures(HandlesOf(pollId), abiEncodedChoices, decryptionProof)
         THEN "ProofVerificationFailed"
    ELSE IF ~decode(abiEncodedChoices, tail, polls[pollId].voteCount,
                    polls[pollId].optionCount).ok
         THEN "ChoiceOutOfBounds"
    ELSE "ok"

\* Mutant: the finalized guard is missing.
resolvePollCallbackRevert_NoFinalizedGuard(pollId, abiEncodedChoices, decryptionProof, tail) ==
    IF polls[pollId].creator = ZeroAddress THEN "InvalidPoll"
    ELSE IF ~polls[pollId].revealRequested THEN "NotRequested"
    ELSE IF ~checkSignatures(HandlesOf(pollId), abiEncodedChoices, decryptionProof)
         THEN "ProofVerificationFailed"
    ELSE IF ~decode(abiEncodedChoices, tail, polls[pollId].voteCount,
                    polls[pollId].optionCount).ok
         THEN "ChoiceOutOfBounds"
    ELSE "ok"

\* The revert reason of resolvePollCallback, "ok" if it does not revert.  A
\* revert inside FHE.checkSignatures is reported as ProofVerificationFailed,
\* the error the contract declares for it; the failed require of the decode
\* loop ("Choice out of bounds") as ChoiceOutOfBounds.
resolvePollCallbackRevert(pollId, abiEncodedChoices, decryptionProof, tail) ==
    IF polls[pollId].creator = ZeroAddress THEN "InvalidPoll"
    ELSE IF ~polls[pollId].revealRequested THEN "NotRequested"
    ELSE IF polls[pollId].finalized THEN "AlreadyFinalized"
    ELSE IF ~checkSignatures(HandlesOf(pollId), abiEncodedChoices, decryptionProof)
         THEN "ProofVerificationFailed"
    ELSE IF ~decode(abiEncodedChoices, tail, polls[pollId].voteCount,
                    polls[pollId].optionCount).ok
         THEN "ChoiceOutOfBounds"
    ELSE "ok"

\* Mutant: a successful callback clears the poll's HasVoted markers.
ResolvePollCallback_ClearsMarkers(pollId, sender, abiEncodedChoices, decryptionProof, tail) ==
    LET err == resolvePollCallbackRevert(pollId, abiEncodedChoices,
                                         decryptionProof, tail)
        verified == checkSignatures(HandlesOf(pollId), abiEncodedChoices,
                                    decryptionProof)
        inRange == decode(abiEncodedChoices, tail, polls[pollId].voteCount,
                          polls[pollId].optionCount).ok
    IN
    /\ IF err = "ok"
       THEN /\ polls' = [polls EXCEPT ![pollId].finalized = TRUE]
            /\ tallies' = [tallies EXCEPT ![pollId] =
                   [counts |-> decode(abiEncodedChoices, tail,
                                      polls[pollId].voteCount,
                                      polls[pollId].optionCount).counts,
                    proof |-> decryptionProof]]
            /\ hasVoted' = [hasVoted EXCEPT ![pollId] = [u \in Users |-> FALSE]]
       ELSE UNCHANGED <<polls, tallies, hasVoted>>
    /\ last' = Receipt("resolvePollCallback", pollId, sender, err, verified, inRange)
    /\ UNCHANGED <<voteLog, tallyDecoder, now, nextPollId, pollVotes, plain, publicDec, revealLog>>

ResolvePollCallback(pollId, sender, abiEncodedChoices, decryptionProof, tail) ==
    LET err == resolvePollCallbackRevert(pollId, abiEncodedChoices,
                                         decryptionProof, tail)
        verified == checkSignatures(HandlesOf(pollId), abiEncodedChoices,
                                    decryptionProof)
        inRange == decode(abiEncodedChoices, tail, polls[pollId].voteCount,
                          polls[pollId].optionCount).ok
    IN
    /\ IF err = "ok"
       THEN /\ polls' = [polls EXCEPT ![pollId].finalized = TRUE]
            /\ tallies' = [tallies EXCEPT ![pollId] =
                   [counts |-> decode(abiEncodedChoices, tail,
                                      polls[pollId].voteCount,
                                      polls[pollId].optionCount).counts,
                    proof |-> decryptionProof]]
       ELSE UNCHANGED <<polls, tallies>>
    /\ last' = Receipt("resolvePollCallback", pollId, sender, err, verified, inRange)
    /\ UNCHANGED <<voteLog, tallyDecoder, now, nextPollId, pollVotes, hasVoted, plain, publicDec, revealLog>>

\* ------------------------------------------------------------------ views
\* Mutant: the finalized check is missing.
getTally_NoFinalizedCheck(pollId) ==
    [err |-> "ok", tally |-> tallies[pollId]]

\* getTally reuses the error AlreadyFinalized for "not finalized yet".
getTally(pollId) ==
    IF ~polls[pollId].finalized
    THEN [err |-> "AlreadyFinalized", tally |-> NoTally]
    ELSE [err |-> "ok", tally |-> tallies[pollId]]

\* The arguments resolvePollCallback reads.  A call that reverts in one of
\* the guards on the poll record has read neither the bundle nor the proof;
\* the words after the bundle are read only by the decode loop, once the
\* proof check has passed.  An argument that is never read is drawn from a
\* single value.
RevertsInGuard(pollId) ==
    resolvePollCallbackRevert(pollId, <<>>, ForgedProof, <<>>)
        \in {"InvalidPoll", "NotRequested", "AlreadyFinalized"}

BundlesRead(pollId) == IF RevertsInGuard(pollId) THEN {<<>>} ELSE Bundles

ProofsRead(pollId) == IF RevertsInGuard(pollId) THEN {ForgedProof} ELSE Proofs

TailsRead(pollId, abiEncodedChoices, decryptionProof) ==
    IF checkSignatures(HandlesOf(pollId), abiEncodedChoices, decryptionProof)
    THEN Tails ELSE {<<>>}

\* ------------------------------------------------------------------ time
Tick ==
    /\ now < MaxTime
    /\ now' = now + 1
    /\ last' = Receipt("none", 0, ZeroAddress, "ok", FALSE, FALSE)
    /\ UNCHANGED contractVars
    /\ UNCHANGED <<tallyDecoder, service>>

\* The contract after its constructor, seen through the poll ids in ids.
Constructed(ids) ==
    /\ now = 0
    /\ nextPollId = 1
    /\ polls = [p \in ids |-> NoPoll]
    /\ pollVotes = [p \in ids |-> [v \in VoteIds |-> NoVote]]
    /\ hasVoted = [p \in ids |-> [u \in Users |-> FALSE]]
    /\ tallies = [p \in ids |-> NoTally]
    /\ plain = <<>>
    /\ publicDec = {}
    /\ revealLog = [p \in ids |-> <<>>]
    /\ voteLog = {}
    /\ last = Receipt("none", 0, ZeroAddress, "ok", FALSE, FALSE)

Init ==
    /\ Constructed(PollIds)
    /\ tallyDecoder = NoDecode
    /\ service = NoService

Next ==
    \/ Tick
    \/ \E sender \in Users, n \in OptionCounts, s \in Times, e \in Times :
          CreatePoll(sender, Question, n, s, e) /\ UNCHANGED service
    \/ \E p \in PollIds, sender \in Users, c \in Choices, ok \in BOOLEAN :
          CastVote(p, sender, c, ok) /\ UNCHANGED service
    \/ \E p \in PollIds, sender \in Users : RequestPollReveal(p, sender)
          /\ UNCHANGED service
    \/ \E p \in PollIds, sender \in Users :
          \E b \in BundlesRead(p), pr \in ProofsRead(p) :
             \E t \in TailsRead(p, b, pr) :
                ResolvePollCallback(p, sender, b, pr, t) /\ UNCHANGED service

Spec == Init /\ [][Next]_vars

\* ---------------------------------------------------------- several polls
\* Up to MaxPolls polls are created and voted on; one account creates and
\* another votes, which is enough to tell the polls apart.
PollCreators == {"alice"}
PollVoters == {"bob"}

InitPolls ==
    /\ Constructed(ManyPollIds)
    /\ tallyDecoder = NoDecode
    /\ service = NoService

NextPolls ==
    \/ Tick
    \/ \E sender \in PollCreators, n \in OptionCounts, s \in Times, e \in Times :
          CreatePollMany(sender, Question, n, s, e) /\ UNCHANGED service
    \/ \E p \in ManyPollIds, sender \in PollVoters : CastVote(p, sender, 0, TRUE)
          /\ UNCHANGED service

SpecPolls == InitPolls /\ [][NextPolls]_vars

\* -------------------------------------------------- two polls, revealed
\* Two polls are created, voted on by one account, requested and resolved.
InitTwoPolls ==
    /\ Constructed(TwoPollIds)
    /\ tallyDecoder = NoDecode
    /\ service = NoService

NextTwoPolls ==
    \/ Tick
    \/ \E sender \in PollCreators, n \in OptionCounts, s \in Times, e \in Times :
          CreatePollTwo(sender, Question, n, s, e) /\ UNCHANGED service
    \/ \E p \in TwoPollIds, sender \in PollVoters : CastVote(p, sender, 0, TRUE)
          /\ UNCHANGED service
    \/ \E p \in TwoPollIds, sender \in PollVoters : RequestPollReveal(p, sender)
          /\ UNCHANGED service
    \/ \E p \in TwoPollIds, sender \in PollVoters :
          \E b \in BundlesRead(p), pr \in ProofsRead(p) :
             \E t \in TailsRead(p, b, pr) :
                ResolvePollCallback(p, sender, b, pr, t) /\ UNCHANGED service

SpecTwoPolls == InitTwoPolls /\ [][NextTwoPolls]_vars

\* ------------------------------------------------------ the decode loop
\* Lines 174-191 on their own: any bundle, any words after it, any voteCount
\* and optionCount.
DecoderBundles == UNION {[1..n -> PaddedWords] : n \in 0..MaxDecVotes}

DecoderTails == {<<>>} \cup {<<w>> : w \in PaddedWords}

InitDecoder ==
    /\ Constructed(PollIds)
    /\ service = NoService
    /\ \E b \in DecoderBundles, t \in DecoderTails,
          n \in 0..MaxDecVotes, k \in OptionCounts :
          tallyDecoder = [NoDecode EXCEPT !.abiEncodedChoices = b, !.tail = t,
                                          !.voteCount = n, !.optionCount = k]

Decode ==
    /\ ~tallyDecoder.done
    /\ tallyDecoder' =
          [tallyDecoder EXCEPT
              !.done = TRUE,
              !.result = decode(tallyDecoder.abiEncodedChoices,
                                tallyDecoder.tail, tallyDecoder.voteCount,
                                tallyDecoder.optionCount)]
    /\ UNCHANGED <<now, last, service>>
    /\ UNCHANGED contractVars

NextDecoder == Decode

DecoderSpec == InitDecoder /\ [][NextDecoder]_vars

\* ===================================================== frontend service
\* FHEVMService (frontend/src/services/fhevm.ts) runs in the browser of each
\* user; every await of a call is a point where other users' transactions
\* can be mined.

\* ------------------------------------------------- FHEVMService.createPoll
\* The user of the service, and the arguments the service passes on.
ServiceUser == "alice"
OtherUsers == Users \ {ServiceUser}
StartDelay == 10
SecondsPerMinute == 60
DurationMinutes == 1

\* const pollId = await this.contract.createPoll.staticCall(...): the call is
\* simulated on the current state and its return value kept; no state
\* changes.  A reverting simulation throws.
ServiceCreateStaticCall ==
    LET startTime == now + StartDelay
        endTime == startTime + DurationMinutes * SecondsPerMinute
        err == createPollRevert(MaxOptions, startTime, endTime) IN
    /\ service.createPoll.pc = "idle"
    /\ service' = [service EXCEPT
                      !.createPoll.pc = IF err = "ok" THEN "predicted" ELSE "thrown",
                      !.createPoll.pollId = IF err = "ok" THEN nextPollId ELSE 0,
                      !.createPoll.startTime = startTime,
                      !.createPoll.endTime = endTime]
    /\ last' = Receipt("none", 0, ZeroAddress, "ok", FALSE, FALSE)
    /\ UNCHANGED contractVars
    /\ UNCHANGED <<now, tallyDecoder>>

\* const tx = await this.contract.createPoll(...); await tx.wait();
\* return Number(pollId): the transaction is mined on the state of that
\* moment, and the service returns the id it predicted.  created is the id
\* the transaction was given (not a variable of the service).
ServiceCreateSend ==
    /\ service.createPoll.pc = "predicted"
    /\ CreatePollMany(ServiceUser, Question, MaxOptions,
                      service.createPoll.startTime, service.createPoll.endTime)
    /\ service' = [service EXCEPT
                      !.createPoll.pc = IF last'.err = "ok" THEN "returned" ELSE "thrown",
                      !.createPoll.created = last'.pollId,
                      !.createPoll.returned =
                          IF last'.err = "ok" THEN service.createPoll.pollId ELSE 0]

NextCreate ==
    \/ Tick
    \/ \E sender \in OtherUsers, n \in OptionCounts, s \in Times, e \in Times :
          CreatePollMany(sender, Question, n, s, e) /\ UNCHANGED service
    \/ ServiceCreateStaticCall
    \/ ServiceCreateSend

SpecCreate == InitPolls /\ [][NextCreate]_vars

\* --------------------------------------------- FHEVMService.decryptResults
\* Every user runs decryptResults on the same poll; each run may be started
\* again after it has thrown, up to MaxRuns runs per user.
ServicePoll == 1
MaxRuns == 2

\* A poll id that was never assigned reads as the default record.
getPoll(pollId) == IF pollId \in DOMAIN polls THEN polls[pollId] ELSE NoPoll

getEncryptedVote(pollId, voteId) == pollVotes[pollId][voteId].encryptedChoice

\* The service touches no contract state and sends no transaction.
ServiceLocal ==
    /\ last' = Receipt("none", 0, ZeroAddress, "ok", FALSE, FALSE)
    /\ UNCHANGED contractVars
    /\ UNCHANGED <<now, tallyDecoder>>

\* Lines 142-164: read the poll and choose the branch.
DecryptGetPoll(u) ==
    LET call == service.decryptResults[u]
        poll == getPoll(ServicePoll) IN
    /\ call.pc = "idle"
    /\ call.runs < MaxRuns
    /\ service' = [service EXCEPT !.decryptResults[u] =
          [call EXCEPT
              !.runs = call.runs + 1,
              !.poll = poll,
              !.voteId = 1,
              !.handles = <<>>,
              !.result = NoProof,
              !.err = "ok",
              !.counts = IF poll.voteCount = 0 THEN Zeros(poll.optionCount)
                         ELSE <<>>,
              !.pc = IF poll.voteCount = 0 THEN "returned"
                     ELSE IF poll.finalized THEN "getTally"
                     ELSE IF ~poll.revealRequested THEN "requestPollReveal"
                     ELSE "getEncryptedVote"]]
    /\ ServiceLocal

\* Lines 152-160: the stored tally of a poll read as finalized.
DecryptGetTally(u) ==
    LET call == service.decryptResults[u]
        tally == getTally(ServicePoll) IN
    /\ call.pc = "getTally"
    /\ service' = [service EXCEPT !.decryptResults[u] =
          [call EXCEPT
              !.pc = IF tally.err = "ok" THEN "returned" ELSE "thrown",
              !.err = tally.err,
              !.counts = tally.tally.counts]]
    /\ ServiceLocal

\* Lines 166-187: the requestPollReveal transaction and the handles of its
\* PollRevealRequested event; a reverting transaction throws.
DecryptRequestPollReveal(u) ==
    LET call == service.decryptResults[u] IN
    /\ call.pc = "requestPollReveal"
    /\ RequestPollReveal(ServicePoll, u)
    /\ service' = [service EXCEPT !.decryptResults[u] =
          [call EXCEPT
              !.pc = IF last'.err = "ok" THEN "publicDecrypt" ELSE "thrown",
              !.err = last'.err,
              !.handles = IF last'.err = "ok" THEN revealLog'[ServicePoll]
                          ELSE <<>>]]

\* Lines 251-256: one iteration of the loop that reads the handles of votes
\* 1..poll.voteCount, poll being the record read at line 142.
DecryptGetEncryptedVote(u) ==
    LET call == service.decryptResults[u] IN
    /\ call.pc = "getEncryptedVote"
    /\ service' = [service EXCEPT !.decryptResults[u] =
          [call EXCEPT
              !.handles = Append(call.handles,
                                 getEncryptedVote(ServicePoll, call.voteId)),
              !.voteId = call.voteId + 1,
              !.pc = IF call.voteId + 1 <= call.poll.voteCount
                     THEN "getEncryptedVote" ELSE "publicDecrypt"]]
    /\ ServiceLocal

\* Lines 193 and 259: the relayer decrypts handles that are all publicly
\* decryptable and signs the result; it refuses any other list.
DecryptPublicDecrypt(u) ==
    LET call == service.decryptResults[u] IN
    /\ call.pc = "publicDecrypt"
    /\ service' = [service EXCEPT !.decryptResults[u] =
          IF AllPublic(call.handles)
          THEN [call EXCEPT !.pc = "resolvePollCallback",
                            !.result = SignedByKms(call.handles)]
          ELSE [call EXCEPT !.pc = "thrown", !.err = "publicDecrypt"]]
    /\ ServiceLocal

\* Lines 211-244 and 268-294: the resolvePollCallback transaction with the
\* decrypted choices, one word each, and the proof; then the counts are
\* computed locally from the decrypted choices, ignoring choices that are
\* no option index.
DecryptResolvePollCallback(u) ==
    LET call == service.decryptResults[u]
        encodedChoices == call.result.clear IN
    /\ call.pc = "resolvePollCallback"
    /\ \E t \in TailsRead(ServicePoll, encodedChoices, call.result) :
          ResolvePollCallback(ServicePoll, u, encodedChoices, call.result, t)
    /\ service' = [service EXCEPT !.decryptResults[u] =
          [call EXCEPT
              !.pc = IF last'.err = "ok" THEN "returned" ELSE "thrown",
              !.err = last'.err,
              !.counts = IF last'.err = "ok"
                         THEN [k \in 1..call.poll.optionCount |->
                                 Cardinality({i \in 1..Len(encodedChoices) :
                                                 encodedChoices[i] = k - 1})]
                         ELSE <<>>]]

\* The user calls decryptResults again after it has thrown.
DecryptAgain(u) ==
    LET call == service.decryptResults[u] IN
    /\ call.pc = "thrown"
    /\ call.runs < MaxRuns
    /\ service' = [service EXCEPT !.decryptResults[u] =
          [call EXCEPT
              !.pc = "idle",
              !.rejected = call.rejected
                  \/ call.err \in {"AlreadyRequested", "AlreadyFinalized"}]]
    /\ ServiceLocal

NextDecrypt ==
    \/ Tick
    \/ \E n \in OptionCounts, s \in Times, e \in Times :
          CreatePoll(ServiceUser, Question, n, s, e) /\ UNCHANGED service
    \/ \E sender \in Users, c \in Choices :
          CastVote(ServicePoll, sender, c, TRUE) /\ UNCHANGED service
    \/ \E u \in Users : DecryptGetPoll(u)
    \/ \E u \in Users : DecryptGetTally(u)
    \/ \E u \in Users : DecryptRequestPollReveal(u)
    \/ \E u \in Users : DecryptGetEncryptedVote(u)
    \/ \E u \in Users : DecryptPublicDecrypt(u)
    \/ \E u \in Users : DecryptResolvePollCallback(u)
    \/ \E u \in Users : DecryptAgain(u)

SpecDecrypt == Init /\ [][NextDecrypt]_vars

\* ------------------------------------------------ FHEVMService.getAllPolls
ScanMax == 50
MaxConsecutiveEmpty == 3
\* Enough poll ids to have a poll after MaxConsecutiveEmpty others, and 0.
ScanPollIds == 0..(MaxConsecutiveEmpty + 1)

\* String.prototype.trim on the question texts of Questions.
trim(question) == IF question = " " THEN "" ELSE question

\* Lines 318-322.
isPollValid(poll) ==
    /\ poll.creator # ZeroAddress
    /\ poll.question # ""
    /\ trim(poll.question) # ""
    /\ poll.optionCount > 0

RECURSIVE reverse(_)
reverse(s) == IF s = <<>> THEN <<>> ELSE Append(reverse(Tail(s)), Head(s))

\* createPoll while one of the poll ids of ScanPollIds is unused.
CreatePollScan(sender, question, optionCount, startTime, endTime) ==
    /\ nextPollId \in ScanPollIds
    /\ createPoll(sender, question, optionCount, startTime, endTime)

\* Lines 304-310: the call starts.
GetAllPollsStart ==
    /\ service.getAllPolls.pc = "idle"
    /\ service' = [service EXCEPT !.getAllPolls =
          [NoGetAllPollsCall EXCEPT
              !.pc = "scanning",
              !.existing = {p \in DOMAIN polls : polls[p].creator # ZeroAddress}]]
    /\ ServiceLocal

\* Lines 312-337: one iteration of the loop, reading one poll.
GetAllPollsStep ==
    LET call == service.getAllPolls
        poll == getPoll(call.pollId) IN
    /\ call.pc = "scanning"
    /\ call.pollId <= ScanMax
    /\ call.consecutiveEmptyPolls < MaxConsecutiveEmpty
    /\ service' = [service EXCEPT !.getAllPolls =
          [call EXCEPT
              !.polls = IF isPollValid(poll) THEN Append(call.polls, call.pollId)
                        ELSE call.polls,
              !.consecutiveEmptyPolls =
                  IF isPollValid(poll) THEN 0
                  ELSE call.consecutiveEmptyPolls + 1,
              !.pollId = call.pollId + 1]]
    /\ ServiceLocal

\* Lines 312 and 345: the loop ends and the list is returned newest first.
GetAllPollsReturn ==
    LET call == service.getAllPolls IN
    /\ call.pc = "scanning"
    /\ ~(call.pollId <= ScanMax
         /\ call.consecutiveEmptyPolls < MaxConsecutiveEmpty)
    /\ service' = [service EXCEPT !.getAllPolls =
          [call EXCEPT !.pc = "returned", !.returned = reverse(call.polls)]]
    /\ ServiceLocal

InitScan ==
    /\ Constructed(ScanPollIds)
    /\ tallyDecoder = NoDecode
    /\ service = NoService

NextScan ==
    \/ \E question \in Questions :
          CreatePollScan(ServiceUser, question, MaxOptions, 0, MaxTime)
          /\ UNCHANGED service
    \/ GetAllPollsStart
    \/ GetAllPollsStep
    \/ GetAllPollsReturn

SpecScan == InitScan /\ [][NextScan]_vars

\* ================================================================ claims
PollExists(pollId) == polls[pollId].creator # ZeroAddress

\* The poll exists, its reveal was requested and it is not finalized.
GuardsPass(pollId) ==
    /\ PollExists(pollId)
    /\ polls[pollId].revealRequested
    /\ ~polls[pollId].finalized

InWindow(pollId) ==
    polls[pollId].startTime <= now /\ now <= polls[pollId].endTime

\* Votes 1..voteCount of the poll whose plaintext is option k.
VotesFor(pollId, k) ==
    {voteId \in 1..polls[pollId].voteCount :
        plain[pollVotes[pollId][voteId].encryptedChoice] = k}

\* C1: once requestPollReveal(p) has succeeded the ciphertext set is frozen:
\* the handle list resolvePollCallback(p) recomputes from votes 1..voteCount
\* equals, element for element, the list requestPollReveal(p) emitted.
C1_FrozenCiphertextSet ==
    \A p \in PollIds :
        polls[p].revealRequested => HandlesOf(p) = revealLog[p]

\* C2: every finalized poll has a tally with one count per option, and the
\* counts sum to the poll's voteCount.
C2_TallyMatchesVoteCount ==
    \A p \in PollIds :
        polls[p].finalized =>
            /\ Len(tallies[p].counts) = polls[p].optionCount
            /\ SumSeq(tallies[p].counts) = polls[p].voteCount

\* C3: for every finalized poll and option k, counts[k] is the number of
\* stored votes of the poll whose true encrypted choice is k.
C3_TallyIsHistogramOfVotes ==
    \A p \in PollIds :
        polls[p].finalized =>
            \A k \in 0..(polls[p].optionCount - 1) :
                tallies[p].counts[k + 1] = Cardinality(VotesFor(p, k))

C6_ResolveGuards ==
    [][(last'.op = "resolvePollCallback" /\ PollExists(last'.pollId))
       => /\ ~polls[last'.pollId].revealRequested
               => (last'.err = "NotRequested" /\ UNCHANGED contractVars)
          /\ polls[last'.pollId].finalized
               => (last'.err = "AlreadyFinalized" /\ UNCHANGED contractVars)]_vars

C6_Witness ==
    /\ last.op = "resolvePollCallback"
    /\ last.err = "AlreadyFinalized"
    /\ polls[last.pollId].finalized

\* C7: the tally of a poll is written exactly once: only a successful
\* resolvePollCallback on a not yet finalized poll writes it, and once the
\* poll is finalized no operation changes its counts or proof again.
C7_TallyWrittenOnce ==
    [][\A p \in PollIds :
        /\ tallies'[p] # tallies[p]
              => (/\ last'.op = "resolvePollCallback" /\ last'.pollId = p
                  /\ last'.err = "ok"
                  /\ ~polls[p].finalized /\ polls'[p].finalized)
        /\ (last'.op = "resolvePollCallback" /\ last'.pollId = p
             /\ last'.err = "ok")
              => ~polls[p].finalized
        /\ polls[p].finalized
              => (polls'[p].finalized /\ tallies'[p] = tallies[p])]_vars

C7_Witness ==
    \E p \in PollIds :
        /\ polls[p].finalized
        /\ tallies[p] # NoTally
        /\ last.op \in {"castVote", "requestPollReveal", "resolvePollCallback"}
        /\ last.pollId = p
        /\ ~(last.op = "resolvePollCallback" /\ last.err = "ok")

\* C8 as stated: a castVote by a voter who already voted on the poll always
\* fails with AlreadyVoted.
C8_RepeatVoteAlwaysAlreadyVoted ==
    [][(/\ last'.op = "castVote"
        /\ hasVoted[last'.pollId][last'.sender])
       => last'.err = "AlreadyVoted"]_vars

\* C8 amended: a castVote by a voter who already voted on the poll fails,
\* with AlreadyVoted while startTime <= now <= endTime and with PollNotActive
\* once now > endTime, and leaves voteCount, votes and markers unchanged.
C8_RepeatVoteRejected ==
    [][(/\ last'.op = "castVote"
        /\ hasVoted[last'.pollId][last'.sender])
       => /\ last'.err = (IF InWindow(last'.pollId) THEN "AlreadyVoted"
                          ELSE "PollNotActive")
          /\ now >= polls[last'.pollId].startTime
          /\ UNCHANGED contractVars]_vars

C8_Witness ==
    /\ last.op = "castVote"
    /\ hasVoted[last.pollId][last.sender]
    /\ last.err = "PollNotActive"
    /\ now > polls[last.pollId].endTime

\* C9: castVote on an existing poll fails with PollNotActive exactly when
\* now < startTime or now > endTime (both bounds are inside the window), such
\* a failure changes no state, and a castVote that succeeds ran inside it.
C9_VotingWindow ==
    [][(last'.op = "castVote" /\ PollExists(last'.pollId))
       => /\ (last'.err = "PollNotActive") <=> ~InWindow(last'.pollId)
          /\ ~InWindow(last'.pollId) => UNCHANGED contractVars
          /\ last'.err = "ok" => InWindow(last'.pollId)]_vars

C9_Witness ==
    /\ last.op = "castVote"
    /\ last.err = "ok"
    /\ now = polls[last.pollId].endTime

\* C10: requestPollReveal on an existing poll fails with PollNotClosed when
\* now < endTime and with IncompleteVotes when the poll is closed with
\* voteCount == 0; either way revealRequested stays false and no handle is
\* marked publicly decryptable.
C10_RevealGuards ==
    [][(last'.op = "requestPollReveal" /\ PollExists(last'.pollId))
       => /\ now < polls[last'.pollId].endTime
               => (/\ last'.err = "PollNotClosed"
                   /\ ~polls'[last'.pollId].revealRequested
                   /\ UNCHANGED contractVars)
          /\ (now >= polls[last'.pollId].endTime
              /\ polls[last'.pollId].voteCount = 0)
               => (/\ last'.err = "IncompleteVotes"
                   /\ ~polls'[last'.pollId].revealRequested
                   /\ UNCHANGED contractVars)]_vars

C10_Witness ==
    /\ last.op = "requestPollReveal"
    /\ last.err = "IncompleteVotes"
    /\ now >= polls[last.pollId].endTime
    /\ polls[last.pollId].voteCount = 0
    /\ ~polls[last.pollId].revealRequested
    /\ publicDec = {}

\* C11: of the requestPollReveal calls on a poll at most one succeeds: a call
\* on a poll whose reveal is already requested fails with AlreadyRequested
\* (AlreadyFinalized once the poll is finalized), emits no list, marks no
\* handle and changes no state.
C11_SecondRequestRejected ==
    [][last'.op = "requestPollReveal"
       => /\ polls[last'.pollId].revealRequested
               => (/\ last'.err = (IF polls[last'.pollId].finalized
                                   THEN "AlreadyFinalized"
                                   ELSE "AlreadyRequested")
                   /\ UNCHANGED contractVars)
          /\ last'.err = "ok"
               => (/\ ~polls[last'.pollId].revealRequested
                   /\ polls'[last'.pollId].revealRequested)]_vars

C11_Witness ==
    /\ last.op = "requestPollReveal"
    /\ last.err = "AlreadyRequested"
    /\ polls[last.pollId].revealRequested
    /\ revealLog[last.pollId] # <<>>

\* C12: revealRequested and finalized only ever change from false to true,
\* and a finalized poll always has revealRequested set.
C12_LifecycleOneWay ==
    [][\A p \in PollIds :
        /\ polls[p].revealRequested => polls'[p].revealRequested
        /\ polls[p].finalized => polls'[p].finalized
        /\ polls'[p].finalized => polls'[p].revealRequested]_vars

C12_Witness ==
    \E p \in PollIds :
        /\ polls[p].finalized
        /\ polls[p].revealRequested
        /\ last.op # "resolvePollCallback"

\* C13: a poll with revealRequested set has voteCount > 0 and now >= endTime,
\* so no poll with zero votes is ever finalized.
C13_RequestedImpliesClosedWithVotes ==
    \A p \in PollIds :
        /\ polls[p].revealRequested
              => (polls[p].voteCount > 0 /\ now >= polls[p].endTime)
        /\ polls[p].finalized => polls[p].voteCount > 0

C13_Witness ==
    \E p \in PollIds :
        /\ polls[p].revealRequested
        /\ now = polls[p].endTime
        /\ polls[p].voteCount = 1

\* C14 as stated: createPoll fails with InvalidOptionCount when fewer than 2
\* options are given and with InvalidSchedule when endTime <= startTime or
\* endTime <= now; a failing createPoll creates no record and consumes no id.
C14_CreatePollErrors ==
    [][last'.op = "createPoll"
       => \A sender \in Users, optionCount \in OptionCounts,
             startTime \in Times, endTime \in Times :
             CreatePoll(sender, Question, optionCount, startTime, endTime)
             => /\ optionCount < 2 => last'.err = "InvalidOptionCount"
                /\ (endTime <= startTime \/ endTime <= now)
                      => last'.err = "InvalidSchedule"
                /\ last'.err # "ok" => UNCHANGED contractVars]_vars

\* C14: createPoll fails with InvalidOptionCount when fewer than 2 options
\* are given, and with InvalidSchedule when at least 2 options are given and
\* endTime <= startTime or endTime <= now; a failing createPoll creates no
\* record and leaves nextPollId as it was.
C14_CreatePollErrorsInOrder ==
    [][last'.op = "createPoll"
       => \A sender \in Users, optionCount \in OptionCounts,
             startTime \in Times, endTime \in Times :
             CreatePoll(sender, Question, optionCount, startTime, endTime)
             => /\ optionCount < 2 => last'.err = "InvalidOptionCount"
                /\ (optionCount >= 2 /\ (endTime <= startTime \/ endTime <= now))
                      => last'.err = "InvalidSchedule"
                /\ last'.err # "ok" => UNCHANGED contractVars]_vars

\* A creation rejected for its schedule after the clock has advanced, with
\* the first poll id still unused.
C14_Witness ==
    /\ last.op = "createPoll"
    /\ last.err = "InvalidSchedule"
    /\ now > 0
    /\ nextPollId = 1
    /\ polls[1] = NoPoll

\* The ids of the polls that exist.
ExistingPolls == {p \in DOMAIN polls : polls[p].creator # ZeroAddress}

C15_ExistingAreSequential ==
    /\ ExistingPolls = 1..Cardinality(ExistingPolls)
    /\ \A p \in ExistingPolls :
          polls[p].optionCount >= 2 /\ polls[p].endTime > polls[p].startTime

C15_CreateReturnsNextId ==
    IF last'.op = "createPoll" /\ last'.err = "ok"
    THEN /\ last'.pollId = Cardinality(ExistingPolls) + 1
         /\ ExistingPolls' = ExistingPolls \cup {last'.pollId}
         /\ ~polls'[last'.pollId].finalized
         /\ ~polls'[last'.pollId].revealRequested
         /\ polls'[last'.pollId].voteCount = 0
    ELSE ExistingPolls' = ExistingPolls

\* C15: poll ids are sequential from 1: the n-th successful createPoll
\* returns n (one more than the number of polls that exist, and only a
\* successful createPoll adds a poll), the existing polls are exactly the ids
\* 1..n, every existing poll has at least 2 options and endTime > startTime,
\* and a new poll starts not finalized, not requested and with voteCount 0.
C15_SequentialPollIds ==
    []C15_ExistingAreSequential /\ [][C15_CreateReturnsNextId]_vars

\* The second poll is created after the first one has received a vote.
C15_Witness ==
    /\ last.op = "createPoll"
    /\ last.err = "ok"
    /\ last.pollId = 2
    /\ ExistingPolls = {1, 2}
    /\ polls[1].voteCount = 1
    /\ polls[2].voteCount = 0

\* C16: for every poll the stored votes occupy exactly the voteIds
\* 1..voteCount, their voters are pairwise distinct, and the number of voters
\* with a HasVoted marker equals voteCount.
C16_VoteLedgerShape ==
    \A p \in PollIds :
        /\ \A i \in VoteIds :
              (pollVotes[p][i] # NoVote) <=> (i <= polls[p].voteCount)
        /\ \A i, j \in 1..polls[p].voteCount :
              i # j => pollVotes[p][i].voter # pollVotes[p][j].voter
        /\ Cardinality({u \in Users : hasVoted[p][u]}) = polls[p].voteCount

C16_Witness ==
    \E p \in PollIds :
        /\ polls[p].voteCount = 2
        /\ pollVotes[p][1].voter # pollVotes[p][2].voter

\* C17: a castVote that the coprocessor rejects (bad ciphertext or input
\* proof) changes no state, so the same voter still passes every guard of
\* castVote afterwards.
C17_RejectedInputChangesNothing ==
    [][(last'.op = "castVote" /\ last'.err = "InvalidInputProof")
       => /\ UNCHANGED contractVars
          /\ polls'[last'.pollId].creator # ZeroAddress
          /\ polls'[last'.pollId].startTime <= now'
          /\ now' <= polls'[last'.pollId].endTime
          /\ ~hasVoted'[last'.pollId][last'.sender]]_vars

C17_Witness ==
    /\ last.op = "castVote"
    /\ last.err = "InvalidInputProof"
    /\ ~hasVoted[last.pollId][last.sender]
    /\ polls[last.pollId].voteCount = 1

\* Reference histogram of a bundle: entry k + 1 counts the slots whose low
\* byte is k.
Histogram(bundle, optionCount) ==
    [k \in 1..optionCount |->
        Cardinality({i \in 1..Len(bundle) : bundle[i] % Byte = k - 1})]

C19_DecodeAtomic ==
    [][(/\ last'.op = "resolvePollCallback"
        /\ GuardsPass(last'.pollId)
        /\ last'.verified
        /\ ~last'.inRange)
       => (/\ last'.err = "ChoiceOutOfBounds"
           /\ ~polls'[last'.pollId].finalized
           /\ tallies'[last'.pollId] = NoTally
           /\ UNCHANGED contractVars)]_vars

\* The rejected bundle has a valid first slot and an out of range second one.
C19_Witness ==
    /\ last.op = "resolvePollCallback"
    /\ last.err = "ChoiceOutOfBounds"
    /\ last.verified
    /\ polls[last.pollId].voteCount = 2
    /\ plain[pollVotes[last.pollId][1].encryptedChoice]
          < polls[last.pollId].optionCount
    /\ ~polls[last.pollId].finalized
    /\ tallies[last.pollId] = NoTally

\* C20: a successful requestPollReveal emits a list of length voteCount whose
\* element i is the handle of vote i, marks exactly those handles publicly
\* decryptable and sets revealRequested.
C20_RevealEmitsOrderedHandles ==
    [][(last'.op = "requestPollReveal" /\ last'.err = "ok")
       => LET p == last'.pollId
              n == polls[p].voteCount
          IN /\ Len(revealLog'[p]) = n
             /\ \A i \in 1..n :
                   revealLog'[p][i] = pollVotes[p][i].encryptedChoice
             /\ publicDec' = publicDec \cup
                   {pollVotes[p][i].encryptedChoice : i \in 1..n}
             /\ polls'[p].revealRequested]_vars

C20_Witness ==
    /\ last.op = "requestPollReveal"
    /\ last.err = "ok"
    /\ polls[last.pollId].voteCount = 2
    /\ Len(revealLog[last.pollId]) = 2
    /\ revealLog[last.pollId][1] # revealLog[last.pollId][2]

\* A 2-option poll holding two votes, the first for option 0, the second for
\* option 1.
Scenario(pollId) ==
    /\ PollExists(pollId)
    /\ polls[pollId].optionCount = 2
    /\ polls[pollId].voteCount = 2
    /\ plain[pollVotes[pollId][1].encryptedChoice] = 0
    /\ plain[pollVotes[pollId][2].encryptedChoice] = 1

\* C21: end to end, on a 2-option poll: requestPollReveal fails with
\* PollNotClosed at every time before endTime; once voter1 has cast 0 and
\* voter2 has cast 1 it succeeds at or after endTime and emits the two handles
\* in vote order; resolvePollCallback with a verifying bundle then yields
\* counts [1,1], voteCount 2 and finalized = true; every resolvePollCallback
\* after that fails with AlreadyFinalized.
C21_EndToEnd ==
    [][\A p \in PollIds :
        /\ (last'.op = "requestPollReveal" /\ last'.pollId = p /\ PollExists(p)
            /\ now < polls[p].endTime)
           => last'.err = "PollNotClosed"
        /\ (last'.op = "requestPollReveal" /\ last'.pollId = p /\ Scenario(p)
            /\ now >= polls[p].endTime
            /\ ~polls[p].revealRequested /\ ~polls[p].finalized)
           => (/\ last'.err = "ok"
               /\ revealLog'[p] = <<pollVotes[p][1].encryptedChoice,
                                    pollVotes[p][2].encryptedChoice>>)
        /\ (last'.op = "resolvePollCallback" /\ last'.pollId = p /\ Scenario(p)
            /\ GuardsPass(p) /\ last'.verified)
           => (/\ last'.err = "ok"
               /\ tallies'[p].counts = <<1, 1>>
               /\ polls'[p].voteCount = 2
               /\ polls'[p].finalized)
        /\ (last'.op = "resolvePollCallback" /\ last'.pollId = p /\ Scenario(p)
            /\ polls[p].finalized)
           => (last'.err = "AlreadyFinalized" /\ UNCHANGED contractVars)]_vars

\* The scenario has run to its end: the second callback was refused.
C21_Witness ==
    /\ last.op = "resolvePollCallback"
    /\ last.err = "AlreadyFinalized"
    /\ Scenario(last.pollId)
    /\ polls[last.pollId].finalized
    /\ tallies[last.pollId].counts = <<1, 1>>
    /\ revealLog[last.pollId] = HandlesOf(last.pollId)

\* C22: a resolvePollCallback that fails with ProofVerificationFailed leaves
\* the poll requested and not finalized and changes no state; on a requested,
\* not finalized poll a call whose bundle and proof verify and whose choices
\* are in range succeeds, at any time and for any caller.
C22_RejectedCallbackRetryable ==
    [][\A p \in PollIds :
        (last'.op = "resolvePollCallback" /\ last'.pollId = p)
        => /\ last'.err = "ProofVerificationFailed"
                => (/\ UNCHANGED contractVars
                    /\ polls'[p].revealRequested
                    /\ ~polls'[p].finalized)
           /\ (GuardsPass(p) /\ last'.verified /\ last'.inRange)
                => (last'.err = "ok" /\ polls'[p].finalized)]_vars

\* After a rejected callback, later than endTime, the authentic bundle of the
\* poll is in range and a proof for it can be obtained.
C22_Witness ==
    /\ last.op = "resolvePollCallback"
    /\ last.err = "ProofVerificationFailed"
    /\ GuardsPass(last.pollId)
    /\ now > polls[last.pollId].endTime
    /\ AllPublic(HandlesOf(last.pollId))
    /\ resolvePollCallbackRevert(last.pollId, ClearOf(HandlesOf(last.pollId)),
                                 SignedByKms(HandlesOf(last.pollId)), <<>>) = "ok"

\* C23: no caller is privileged: whenever requestPollReveal or
\* resolvePollCallback is executed by some caller, every other caller can
\* execute it in the same state at the same time with the same arguments and
\* gets the same outcome: the same success or error and the same resulting
\* contract state.
C23_NoPrivilegedCaller ==
    [][\A p \in PollIds, u \in Users \ {last'.sender} :
        /\ (last'.op = "requestPollReveal" /\ last'.pollId = p)
           => \E r \in {[last' EXCEPT !.sender = u]}, cv \in {contractVars'} :
                 ENABLED (/\ RequestPollReveal(p, u)
                          /\ UNCHANGED service
                          /\ last' = r
                          /\ contractVars' = cv)
        /\ (last'.op = "resolvePollCallback" /\ last'.pollId = p)
           => \E r \in {[last' EXCEPT !.sender = u]}, cv \in {contractVars'} :
                 ENABLED (\E b \in BundlesRead(p), pr \in ProofsRead(p) :
                            \E t \in TailsRead(p, b, pr) :
                               /\ ResolvePollCallback(p, u, b, pr, t)
                               /\ UNCHANGED service
                               /\ last' = r
                               /\ contractVars' = cv)]_vars

\* A reveal requested and a tally resolved by an account that neither
\* created the poll nor voted in it.
C23_Witness ==
    /\ last.op = "resolvePollCallback"
    /\ last.err = "ok"
    /\ last.sender # polls[last.pollId].creator
    /\ ~hasVoted[last.pollId][last.sender]

\* C24: getTally fails for every poll that is not finalized, a poll that
\* does not exist and a poll whose reveal is requested included; for a
\* finalized poll it returns the stored tally, which right after the
\* successful resolvePollCallback is the decoded counts of the verified bundle
\* and the proof that call was given.
C24_GetTally ==
    \A p \in PollIds :
        /\ ~polls[p].finalized => getTally(p).err # "ok"
        /\ polls[p].finalized
              => (/\ getTally(p) = [err |-> "ok", tally |-> tallies[p]]
                  /\ tallies[p] # NoTally)
        /\ (last.op = "resolvePollCallback" /\ last.err = "ok" /\ last.pollId = p)
              => getTally(p).tally =
                    [counts |-> Histogram(ClearOf(HandlesOf(p)),
                                          polls[p].optionCount),
                     proof |-> SignedByKms(HandlesOf(p))]

\* One poll is finalized and readable while the poll id nobody created is
\* refused.
C24_Witness ==
    /\ last.op = "resolvePollCallback"
    /\ last.err = "ok"
    /\ getTally(last.pollId).err = "ok"
    /\ Len(getTally(last.pollId).tally.counts) = 2
    /\ getTally(0).err = "AlreadyFinalized"

\* C25: a stored vote keeps its voter and its handle and is never deleted, a
\* HasVoted marker never returns to false, and an existing poll keeps its
\* creator, its question, its number of options, its startTime and its
\* endTime.
C25_VotesAndPollsImmutable ==
    [][\A p \in PollIds :
        /\ \A v \in VoteIds :
              pollVotes[p][v] # NoVote => pollVotes'[p][v] = pollVotes[p][v]
        /\ \A u \in Users : hasVoted[p][u] => hasVoted'[p][u]
        /\ PollExists(p)
              => (/\ polls'[p].creator = polls[p].creator
                  /\ polls'[p].question = polls[p].question
                  /\ polls'[p].optionCount = polls[p].optionCount
                  /\ polls'[p].startTime = polls[p].startTime
                  /\ polls'[p].endTime = polls[p].endTime)]_vars

\* Two votes are stored and the poll went through its whole life.
C25_Witness ==
    \E p \in PollIds :
        /\ polls[p].finalized
        /\ pollVotes[p][1] # NoVote
        /\ pollVotes[p][2] # NoVote
        /\ \A u \in Users : hasVoted[p][u]

\* C26: createPoll and castVote never change revealRequested or finalized of
\* an existing poll, requestPollReveal never changes finalized or a tally, and
\* resolvePollCallback never changes voteCount, a stored vote or a HasVoted
\* marker.
C26_LifecycleWriters ==
    [][/\ last'.op \in {"createPoll", "castVote"}
          => \A p \in DOMAIN polls :
                PollExists(p)
                => (/\ polls'[p].revealRequested = polls[p].revealRequested
                    /\ polls'[p].finalized = polls[p].finalized)
       /\ last'.op = "requestPollReveal"
          => (/\ \A p \in DOMAIN polls : polls'[p].finalized = polls[p].finalized
              /\ UNCHANGED tallies)
       /\ last'.op = "resolvePollCallback"
          => (/\ \A p \in DOMAIN polls : polls'[p].voteCount = polls[p].voteCount
              /\ UNCHANGED <<pollVotes, hasVoted>>)]_vars

\* The second poll is created while the first one is finalized.
C26_Witness ==
    /\ last.op = "createPoll"
    /\ last.err = "ok"
    /\ last.pollId = 2
    /\ polls[1].finalized
    /\ polls[1].revealRequested
    /\ hasVoted[1]["bob"]

\* C27: a castVote by a voter who has not voted yet, on an existing poll
\* inside its window and with an input the coprocessor accepts, succeeds
\* whatever the other voters did before it; it receives the next voteId in
\* commit order, and voteCount is the number of successful calls.
C27_DistinctVotersSerialize ==
    [][\A p \in PollIds, u \in Users :
        (/\ last'.op = "castVote" /\ last'.pollId = p /\ last'.sender = u
         /\ PollExists(p) /\ InWindow(p) /\ ~hasVoted[p][u]
         /\ last'.err # "InvalidInputProof")
        => (/\ last'.err = "ok"
            /\ polls'[p].voteCount = polls[p].voteCount + 1
            /\ pollVotes'[p][polls'[p].voteCount].voter = u
            /\ Cardinality({w \in Users : hasVoted'[p][w]})
                  = polls'[p].voteCount)]_vars

\* Both voters voted at the same timestamp, bob first.
C27_Witness ==
    /\ last.op = "castVote"
    /\ last.err = "ok"
    /\ last.sender = "alice"
    /\ polls[last.pollId].voteCount = 2
    /\ pollVotes[last.pollId][1].voter = "bob"
    /\ pollVotes[last.pollId][2].voter = "alice"
    /\ now = polls[last.pollId].startTime
    /\ now = polls[last.pollId].endTime - 1
    /\ now > 0

\* C28: from every reachable state in which a poll is requested and not
\* finalized, some resolvePollCallback call succeeds, the decryption service
\* signing every handle list that is publicly decryptable.
C28_RequestedPollFinalizable ==
    \A p \in PollIds :
        GuardsPass(p)
        => \E b \in Bundles, pr \in Proofs, t \in Tails :
              resolvePollCallbackRevert(p, b, pr, t) = "ok"

\* C29: for every poll whose reveal is requested, the handle of every stored
\* vote 1..voteCount is marked publicly decryptable.
C29_RequestedHandlesPublic ==
    \A p \in PollIds :
        polls[p].revealRequested => AllPublic(HandlesOf(p))

\* The bundle with every word reduced to its low byte.
LowBytes(bundle) == [i \in 1..Len(bundle) |-> bundle[i] % Byte]

\* C30: a bundle of voteCount slots decodes to the same outcome (the same
\* counts, or the failed bounds check) as the bundle that keeps only the low
\* byte of each slot; hence two bundles that agree in the low bytes decode
\* alike.
C30_PaddingInsensitive ==
    (tallyDecoder.done
     /\ Len(tallyDecoder.abiEncodedChoices) = tallyDecoder.voteCount)
    => tallyDecoder.result =
          decode(LowBytes(tallyDecoder.abiEncodedChoices), tallyDecoder.tail,
                 tallyDecoder.voteCount, tallyDecoder.optionCount)

\* A bundle with padding in two slots, decoded like [0,1,0].
C30_Witness ==
    /\ tallyDecoder.done
    /\ tallyDecoder.abiEncodedChoices = <<Byte, Byte + 1, 0>>
    /\ tallyDecoder.voteCount = 3
    /\ tallyDecoder.optionCount = 2
    /\ tallyDecoder.result = [ok |-> TRUE, counts |-> <<2, 1>>]

\* C31: no resolvePollCallback whose bundle holds fewer than voteCount slots
\* succeeds, whatever proof it carries and whatever follows the bundle in
\* calldata; the bundle of a successful call has exactly voteCount slots.
C31_ShortBundleRejected ==
    \A p \in PollIds :
        /\ \A b \in Bundles, pr \in Proofs, t \in Tails :
              Len(b) < polls[p].voteCount
              => resolvePollCallbackRevert(p, b, pr, t) # "ok"
        /\ (last.op = "resolvePollCallback" /\ last.err = "ok" /\ last.pollId = p)
              => Len(tallies[p].proof.clear) = polls[p].voteCount

\* A callback was rejected on a poll with two votes while the decryption
\* service signs a one-slot bundle (the list emitted before the second vote).
C31_Witness ==
    /\ last.op = "resolvePollCallback"
    /\ last.err = "ProofVerificationFailed"
    /\ GuardsPass(last.pollId)
    /\ polls[last.pollId].voteCount = 2
    /\ \E pr \in Proofs : pr.signer = "kms" /\ Len(pr.clear) = 1

\* C32: the first failing guard determines the error.  A reverted call
\* leaves the state it ran in, so the receipt of a failed call is compared
\* with the guards in source order: castVote InvalidPoll, PollNotActive,
\* AlreadyVoted; requestPollReveal InvalidPoll, PollNotClosed,
\* AlreadyFinalized, AlreadyRequested, IncompleteVotes; resolvePollCallback
\* InvalidPoll, NotRequested, AlreadyFinalized.
C32_GuardOrder ==
    \A p \in PollIds :
        (last.pollId = p /\ last.err # "ok")
        => /\ last.op = "castVote"
                => last.err =
                     (IF ~PollExists(p) THEN "InvalidPoll"
                      ELSE IF ~InWindow(p) THEN "PollNotActive"
                      ELSE IF hasVoted[p][last.sender] THEN "AlreadyVoted"
                      ELSE "InvalidInputProof")
           /\ last.op = "requestPollReveal"
                => last.err =
                     (IF ~PollExists(p) THEN "InvalidPoll"
                      ELSE IF now < polls[p].endTime THEN "PollNotClosed"
                      ELSE IF polls[p].finalized THEN "AlreadyFinalized"
                      ELSE IF polls[p].revealRequested THEN "AlreadyRequested"
                      ELSE IF polls[p].voteCount = 0 THEN "IncompleteVotes"
                      ELSE "none")
           /\ last.op = "resolvePollCallback"
                => IF ~PollExists(p) THEN last.err = "InvalidPoll"
                   ELSE IF ~polls[p].revealRequested THEN last.err = "NotRequested"
                   ELSE IF polls[p].finalized THEN last.err = "AlreadyFinalized"
                   ELSE last.err \in {"ProofVerificationFailed", "ChoiceOutOfBounds"}

\* A second request on a finalized poll was refused with AlreadyFinalized.
C32_Witness ==
    /\ last.op = "requestPollReveal"
    /\ last.err = "AlreadyFinalized"
    /\ polls[last.pollId].revealRequested
    /\ polls[last.pollId].finalized

\* C33: castVote, requestPollReveal and resolvePollCallback on a poll id that
\* was never created fail with InvalidPoll and change no state; every
\* operation on poll p leaves the record, votes, HasVoted markers and tally of
\* every other poll as they were.
C33_OtherPollsUntouched ==
    [][\A p \in DOMAIN polls :
        (last'.op # "none" /\ last'.pollId = p)
        => /\ (last'.op # "createPoll" /\ ~PollExists(p))
                => (last'.err = "InvalidPoll" /\ UNCHANGED contractVars)
           /\ \A q \in DOMAIN polls \ {p} :
                 /\ polls'[q] = polls[q]
                 /\ pollVotes'[q] = pollVotes[q]
                 /\ hasVoted'[q] = hasVoted[q]
                 /\ tallies'[q] = tallies[q]]_vars

\* A call on poll id 2, not created yet, was refused while poll 1 holds a
\* vote.
C33_Witness ==
    /\ last.op \in {"castVote", "requestPollReveal", "resolvePollCallback"}
    /\ last.pollId = 2
    /\ last.err = "InvalidPoll"
    /\ nextPollId = 2
    /\ polls[1].voteCount = 1

\* C34: a successful castVote increments voteCount by 1, stores the vote
\* under the new voteCount with the caller as voter, sets the caller's
\* HasVoted marker and emits VoteCast with that pollId and voteId.
C34_CastVoteEffects ==
    [][\A p \in PollIds :
        (last'.op = "castVote" /\ last'.err = "ok" /\ last'.pollId = p)
        => /\ polls'[p].voteCount = polls[p].voteCount + 1
           /\ polls'[p] = [polls[p] EXCEPT !.voteCount = @ + 1]
           /\ pollVotes'[p][polls'[p].voteCount].voter = last'.sender
           /\ pollVotes'[p][polls'[p].voteCount].encryptedChoice = Len(plain')
           /\ hasVoted'[p][last'.sender]
           /\ voteLog' = voteLog \cup
                 {[pollId |-> p, voteId |-> polls'[p].voteCount,
                   voter |-> last'.sender]}
           /\ Cardinality(voteLog') = Cardinality(voteLog) + 1]_vars

\* The second vote of a poll was just cast and logged.
C34_Witness ==
    /\ last.op = "castVote"
    /\ last.err = "ok"
    /\ polls[last.pollId].voteCount = 2
    /\ pollVotes[last.pollId][2].voter = last.sender
    /\ [pollId |-> last.pollId, voteId |-> 2, voter |-> last.sender] \in voteLog
    /\ Cardinality(voteLog) = 2

\* C36: FHEVMService.createPoll returns the id of the poll that its own
\* transaction created, whatever createPoll transactions of other users are
\* mined between its static-call prediction and its own transaction.
C36_ReturnsOwnPollId ==
    service.createPoll.pc = "returned"
    => service.createPoll.returned = service.createPoll.created

\* C35: when the users run FHEVMService.decryptResults concurrently on the
\* same closed poll with votes, the poll is finalized at most once (a stored
\* tally never changes), a requestPollReveal or resolvePollCallback sent for
\* a poll that another run has already requested or finalized is rejected
\* with AlreadyRequested or AlreadyFinalized and changes no contract state,
\* and a run started after such a rejection ends by returning the per-option
\* counts of the on-chain tally.
C35_ConcurrentDecryptResults ==
    /\ [](\A u \in Users :
            LET call == service.decryptResults[u] IN
            (call.rejected /\ call.pc \in {"returned", "thrown"})
            => /\ call.pc = "returned"
               /\ polls[ServicePoll].finalized
               /\ call.counts = tallies[ServicePoll].counts)
    /\ [][/\ polls[ServicePoll].finalized
             => /\ polls'[ServicePoll].finalized
                /\ tallies'[ServicePoll] = tallies[ServicePoll]
          /\ (last'.op = "requestPollReveal" /\ polls[ServicePoll].revealRequested)
             => /\ last'.err \in {"AlreadyRequested", "AlreadyFinalized"}
                /\ UNCHANGED contractVars
          /\ (last'.op = "resolvePollCallback" /\ polls[ServicePoll].finalized)
             => /\ last'.err = "AlreadyFinalized"
                /\ UNCHANGED contractVars]_vars

\* C38: in the branch of decryptResults taken when the reveal was already
\* requested, the handle list rebuilt from getEncryptedVote(pollId,
\* 1..voteCount) equals, in order and membership, the list emitted in
\* PollRevealRequested and the list resolvePollCallback recomputes, so the
\* bundle decrypted for it passes the proof check.
C38_ResumedHandlesMatch ==
    \A u \in Users :
       LET call == service.decryptResults[u] IN
       (call.pc = "publicDecrypt" /\ call.poll.revealRequested)
       => /\ call.handles = revealLog[ServicePoll]
          /\ call.handles = HandlesOf(ServicePoll)
          /\ AllPublic(call.handles)
          /\ checkSignatures(HandlesOf(ServicePoll), ClearOf(call.handles),
                             SignedByKms(call.handles))

\* C37: getAllPolls returns every poll that exists on the contract with an
\* id <= 50 (here: that existed when the call started), each exactly once
\* and in descending id order; in particular the stop after three
\* consecutive empty ids never ends the scan before the last existing poll.
C37_GetAllPollsComplete ==
    LET call == service.getAllPolls IN
    call.pc = "returned"
    => /\ \A p \in call.existing :
             p <= ScanMax => \E i \in 1..Len(call.returned) : call.returned[i] = p
       /\ \A i \in 1..Len(call.returned), j \in 1..Len(call.returned) :
             i < j => call.returned[i] > call.returned[j]

====
